---- MODULE Spec2Model ----
(***************************************************************************)
(* Connector and ingestion subsystem of the predictive-maintenance         *)
(* backend: the data connectors (backend/connectors/data_connector.py),    *)
(* the connector endpoints of the API (backend/main.py), the data          *)
(* processor (backend/models/data_processor.py) and the rule-based         *)
(* prediction fallback (backend/app/main.py).                              *)
(***************************************************************************)
EXTENDS Integers, Sequences, FiniteSets, TLC

(***************************************************************************)
(* Bounds of the model.                                                    *)
(***************************************************************************)
\* number of connector objects that can be constructed in one behaviour
MaxConn == 2

ConnIds == 1..MaxConn
EquipmentIds == {"EQ1", "EQ2"}
\* connector_type values a setup request may carry; "ftp" is not a known type
ConnectorTypes == {"csv", "api", "modbus", "opcua", "ftp"}
\* the optional transports: their classes exist only when the import succeeded
OptionalTypes == {"modbus", "opcua"}

VARIABLES
    connectors,        \* ConnIds -> the connector object in that slot (NoConnector: none)
    active_connectors, \* main.py active_connectors: equipment id -> connector (0: no entry)
    installed,         \* which optional transports could be imported
    pending,           \* the request handler / call blocked in thread.join(timeout=2)
    response,          \* what the last finished request handler returned
    lastCall,          \* the last finished direct call of a connector method
    stopped,           \* connectors for which stop_connector has returned
    invoked,           \* connector whose callback was invoked by this step (0: none)
    byteorder,         \* sys.byteorder of the host that runs the backend
    registers,         \* ModbusConnector.registers: name -> register configuration
    device,            \* what the Modbus device answers to the reads
    emitted,           \* the readings _read_once handed to process_reading
    source,            \* what a connector acquired: equipment id, instant, data
    reading,           \* the reading process_reading built from source
    parsed,            \* what data_callback extracted from the reading
    numerical_columns, \* DataProcessor.numerical_columns (none: not yet identified)
    frames,            \* the frames still to be passed to DataProcessor.process
    features,          \* the last frame processed and what process returned for it
    request,           \* a POST /api/prediction request and what the server has on disk
    prediction,        \* the "prediction" object of the response
    pollers,           \* the polling threads that hand readings to data_callback
    cbLog,             \* what happened to the readings, in order: calls, returns, steps
    coroutines,        \* coroutine objects made by calling data_callback, never run
    csvLoop,           \* CSVFileConnector._read_loop: rows, row_index, and whether it runs
    history            \* the readings passed to data_processor.process so far, in order

supVars == <<connectors, active_connectors, installed, pending, response,
             lastCall, stopped, invoked>>

regVars == <<byteorder, registers, device, emitted>>

\* the variables of the parts that are exercised on their own
rdVars == <<source, reading, parsed>>

procVars == <<numerical_columns, frames, features>>

predVars == <<request, prediction>>

ingVars == <<pollers, cbLog, coroutines>>

pureVars == <<regVars, rdVars, procVars, predVars, ingVars, csvLoop, history>>

vars == <<supVars, pureVars>>

(***************************************************************************)
(* Connector objects.                                                      *)
(*   thread: "none" (self.thread is None), "top" (at the while test of     *)
(*   _read_loop), "read" (inside the loop body, before process_reading),   *)
(*   "sleep" (in time.sleep(self.interval)), "done" (the thread exited).   *)
(*   client: "none" (self.client is None), "open" (session established),   *)
(*   "closed" (a client object whose session is not open).                 *)
(***************************************************************************)
NoConnector ==
    [equipment_id |-> "none", ctype |-> "none", connected |-> FALSE,
     loop |-> FALSE, thread |-> "none", client |-> "none"]

\* DataConnector.__init__ and the variants' __init__
NewConnector(E, T) ==
    [equipment_id |-> E, ctype |-> T, connected |-> FALSE,
     loop |-> FALSE, thread |-> "none", client |-> "none"]

\* create_connector: the type is known and its class is defined
Supported(T) ==
    \/ T \in {"csv", "api"}
    \/ T \in OptionalTypes /\ T \in installed

\* a factory that falls back to the api variant when the transport is missing
CreateSubstitute(E, T) ==
    IF Supported(T) THEN [raised |-> FALSE, conn |-> NewConnector(E, T)]
    ELSE IF T \in OptionalTypes THEN [raised |-> FALSE, conn |-> NewConnector(E, "api")]
    ELSE [raised |-> TRUE, conn |-> NoConnector]

\* create_connector: the connector of the requested class, or ValueError
create_connector(E, T) ==
    IF Supported(T) THEN [raised |-> FALSE, conn |-> NewConnector(E, T)]
    ELSE [raised |-> TRUE, conn |-> NoConnector]

\* a connect() that sets the flag before the source has answered
ConnectFlagFirst(c, ok) ==
    IF c.ctype \in OptionalTypes
    THEN [c EXCEPT !.client = IF ok THEN "open" ELSE "closed", !.connected = TRUE]
    ELSE [c EXCEPT !.connected = TRUE]

\* connect(): ok is whether the source answered (file exists, probe request
\* succeeded, TCP/OPC UA session opened); on failure connect() raises
Connect(c, ok) ==
    IF c.ctype \in OptionalTypes
    THEN IF ok THEN [c EXCEPT !.client = "open", !.connected = TRUE]
               ELSE [c EXCEPT !.client = "closed"]
    ELSE IF ok THEN [c EXCEPT !.connected = TRUE] ELSE c

\* self.client.close() / self.client.disconnect(), guarded by `if self.client`
ClientClose(c) ==
    IF c.client = "none" THEN c ELSE [c EXCEPT !.client = "closed"]

\* a disconnect() that forgets to clear the loop flag
ClearFlagsKeepLoop(c) == [c EXCEPT !.connected = FALSE]

\* self.connected = False; self.loop = False
ClearFlags(c) == [c EXCEPT !.connected = FALSE, !.loop = FALSE]

\* a disconnect() that clears the flags before it closes the client
DisconnectFlagsFirst(c, libOk) ==
    [conn |-> ClearFlags(ClientClose(c)),
     raised |-> c.ctype = "opcua" /\ c.client # "none" /\ ~libOk]

\* disconnect() up to the thread.join: libOk is whether the OPC UA client's
\* disconnect() returned instead of raising; a raise leaves the flags as they were
DisconnectBegin(c, libOk) ==
    IF c.ctype = "opcua" /\ c.client # "none" /\ ~libOk
    THEN [conn |-> ClientClose(c), raised |-> TRUE]
    ELSE [conn |-> ClearFlags(ClientClose(c)), raised |-> FALSE]

\* self.thread and self.thread.is_alive()
IsAlive(c) == c.thread \notin {"none", "done"}

\* the polling thread is in a call that can outlast the 2 s join: the sleep
\* between polls, or the network read of the api/modbus/opcua variants
Blocked(c) ==
    \/ c.thread = "sleep"
    \/ c.thread = "read" /\ c.ctype # "csv"

\* a join without a timeout: it returns only when the thread has exited
JoinUnbounded(c) == c.thread = "done"

\* self.thread.join(timeout=2) returns: the thread has exited, or the two
\* seconds have passed while it was blocked
JoinOver(c) == c.thread = "done" \/ Blocked(c)

\* read_data(loop=True) on a connected connector: sets loop, starts the thread
ReadDataLoop(c) == [c EXCEPT !.loop = TRUE, !.thread = "top"]

Idle == [op |-> "idle", eq |-> "none", ctype |-> "none", conn |-> 0]
NoResponse == [op |-> "none", eq |-> "none", ctype |-> "none", status |-> 0,
               new |-> 0, old |-> 0]
NoCall == [op |-> "none", conn |-> 0, result |-> "none", arg |-> "none",
           before |-> NoConnector]

\* the register-map reader is not exercised
RegIdle ==
    /\ byteorder = "little"
    /\ registers = <<>>
    /\ device = <<>>
    /\ emitted = <<>>

\* the connector endpoints are not exercised
SupIdle ==
    /\ connectors = [n \in ConnIds |-> NoConnector]
    /\ active_connectors = [E \in EquipmentIds |-> 0]
    /\ installed = OptionalTypes
    /\ pending = Idle
    /\ response = NoResponse
    /\ lastCall = NoCall
    /\ stopped = {}
    /\ invoked = 0

\* no reading is being serialized
RdIdle ==
    /\ source = <<>>
    /\ reading = <<>>
    /\ parsed = <<>>

\* the data processor as constructed, with nothing to process
ProcIdle ==
    /\ numerical_columns = [none |-> TRUE, cols |-> {}]
    /\ frames = <<>>
    /\ features = <<>>

\* no prediction request
PredIdle ==
    /\ request = <<>>
    /\ prediction = <<>>

\* no polling thread is handing readings to the callback
IngIdle ==
    /\ pollers = <<>>
    /\ cbLog = <<>>
    /\ coroutines = {}

\* no csv replay loop is being followed
CsvIdle == csvLoop = <<>>

FreeSlots == {n \in ConnIds : connectors[n] = NoConnector}
\* a factory that hands out one shared connector object
SharedSlot == CHOOSE n \in ConnIds : \A m \in ConnIds : n <= m
NextSlot == CHOOSE n \in FreeSlots : \A m \in FreeSlots : n <= m

Init ==
    /\ connectors = [n \in ConnIds |-> NoConnector]
    /\ active_connectors = [E \in EquipmentIds |-> 0]
    /\ installed \in SUBSET OptionalTypes
    /\ pending = Idle
    /\ response = NoResponse
    /\ lastCall = NoCall
    /\ stopped = {}
    /\ invoked = 0
    /\ RegIdle
    /\ RdIdle
    /\ ProcIdle
    /\ PredIdle
    /\ IngIdle
    /\ CsvIdle
    /\ history = <<>>

(***************************************************************************)
(* The polling thread of a connector (_read_loop).                         *)
(***************************************************************************)
\* `while self.loop and self.connected`
LoopTest(n) ==
    /\ connectors[n].thread = "top"
    /\ connectors' = [connectors EXCEPT ![n].thread =
                        IF connectors[n].loop /\ connectors[n].connected
                        THEN "read" ELSE "done"]
    /\ invoked' = 0
    /\ UNCHANGED <<active_connectors, installed, pending, response, lastCall, stopped, pureVars>>

\* whether one poll reaches process_reading: readOk is whether the read and
\* the conversion of the values went through; the opcua _read_once catches
\* per node and always emits
Emits(c, readOk) == c.ctype = "opcua" \/ readOk

\* whether an exception leaves _read_loop: the api, modbus and opcua loops wrap
\* _read_once in try/except, the csv loop body is not inside any try
Crashes(c, readOk) == c.ctype = "csv" /\ ~readOk

\* the loop body: _read_once, then process_reading calls self.callback(reading)
LoopBody(n, readOk) ==
    /\ connectors[n].thread = "read"
    /\ connectors' = [connectors EXCEPT ![n].thread =
                        IF Crashes(connectors[n], readOk) THEN "done" ELSE "sleep"]
    /\ invoked' = IF Emits(connectors[n], readOk) THEN n ELSE 0
    /\ UNCHANGED <<active_connectors, installed, pending, response, lastCall, stopped, pureVars>>

\* time.sleep(self.interval) returns
LoopWake(n) ==
    /\ connectors[n].thread = "sleep"
    /\ connectors' = [connectors EXCEPT ![n].thread = "top"]
    /\ invoked' = 0
    /\ UNCHANGED <<active_connectors, installed, pending, response, lastCall, stopped, pureVars>>

(***************************************************************************)
(* The connector endpoints (backend/main.py).                              *)
(***************************************************************************)
\* a setup that puts the old connector back into the registry when the new
\* one cannot be created or connected
SetupTailRestore(conns, act, stp, E, T, ok, old) ==
    IF create_connector(E, T).raised
    THEN /\ connectors' = conns
         /\ active_connectors' = [act EXCEPT ![E] = old]
         /\ stopped' = stp
         /\ response' = [op |-> "setup", eq |-> E, ctype |-> T, status |-> 500,
                         new |-> 0, old |-> old]
    ELSE LET n == NextSlot
             c == Connect(create_connector(E, T).conn, ok)
         IN  IF ~ok
             THEN /\ connectors' = [conns EXCEPT ![n] = c]
                  /\ active_connectors' = [act EXCEPT ![E] = old]
                  /\ stopped' = stp
                  /\ response' = [op |-> "setup", eq |-> E, ctype |-> T,
                                  status |-> 500, new |-> n, old |-> old]
             ELSE /\ connectors' = [conns EXCEPT ![n] = ReadDataLoop(c)]
                  /\ active_connectors' = [act EXCEPT ![E] = n]
                  /\ stopped' = stp
                  /\ response' = [op |-> "setup", eq |-> E, ctype |-> T,
                                  status |-> 200, new |-> n, old |-> old]

\* setup_connector after the old connector (if any) was stopped: create,
\* set_callback, connect, read_data(loop=True), register
SetupTail(conns, act, stp, E, T, ok, old) ==
    IF create_connector(E, T).raised
    THEN /\ connectors' = conns
         /\ active_connectors' = act
         /\ stopped' = stp
         /\ response' = [op |-> "setup", eq |-> E, ctype |-> T, status |-> 500,
                         new |-> 0, old |-> old]
    ELSE LET n == NextSlot
             c == Connect(create_connector(E, T).conn, ok)
         IN  IF ~ok
             THEN /\ connectors' = [conns EXCEPT ![n] = c]
                  /\ active_connectors' = act
                  /\ stopped' = stp
                  /\ response' = [op |-> "setup", eq |-> E, ctype |-> T,
                                  status |-> 500, new |-> n, old |-> old]
             ELSE /\ connectors' = [conns EXCEPT ![n] = ReadDataLoop(c)]
                  /\ active_connectors' = [act EXCEPT ![E] = n]
                  /\ stopped' = stp
                  /\ response' = [op |-> "setup", eq |-> E, ctype |-> T,
                                  status |-> 200, new |-> n, old |-> old]

\* POST /connector/setup
SetupConnector(E, T, ok, libOk) ==
    /\ pending = Idle
    /\ FreeSlots # {}
    /\ invoked' = 0
    /\ UNCHANGED <<installed, lastCall, pureVars>>
    /\ IF active_connectors[E] = 0
       THEN /\ SetupTail(connectors, active_connectors, stopped, E, T, ok, 0)
            /\ pending' = Idle
       ELSE LET old == active_connectors[E]
                d == DisconnectBegin(connectors[old], libOk)
                conns == [connectors EXCEPT ![old] = d.conn]
            IN  IF d.raised
                THEN \* stop_connector raised HTTPException(500); setup re-raises it
                     /\ connectors' = conns
                     /\ response' = [op |-> "setup", eq |-> E, ctype |-> T,
                                     status |-> 500, new |-> 0, old |-> old]
                     /\ pending' = Idle
                     /\ UNCHANGED <<active_connectors, stopped>>
                ELSE IF IsAlive(d.conn)
                THEN \* blocked in thread.join(timeout=2)
                     /\ connectors' = conns
                     /\ pending' = [op |-> "setup", eq |-> E, ctype |-> T, conn |-> old]
                     /\ response' = NoResponse
                     /\ UNCHANGED <<active_connectors, stopped>>
                ELSE /\ SetupTail(conns, [active_connectors EXCEPT ![E] = 0],
                                  stopped \cup {old}, E, T, ok, old)
                     /\ pending' = Idle

\* DELETE /connector/{equipment_id}
StopConnector(E, libOk) ==
    /\ pending = Idle
    /\ invoked' = 0
    /\ UNCHANGED <<installed, lastCall, pureVars>>
    /\ IF active_connectors[E] = 0
       THEN /\ response' = [op |-> "stop", eq |-> E, ctype |-> "none", status |-> 404,
                            new |-> 0, old |-> 0]
            /\ UNCHANGED <<connectors, active_connectors, pending, stopped>>
       ELSE LET old == active_connectors[E]
                d == DisconnectBegin(connectors[old], libOk)
            IN  /\ connectors' = [connectors EXCEPT ![old] = d.conn]
                /\ IF d.raised
                   THEN /\ response' = [op |-> "stop", eq |-> E, ctype |-> "none",
                                        status |-> 500, new |-> 0, old |-> old]
                        /\ UNCHANGED <<active_connectors, pending, stopped>>
                   ELSE IF IsAlive(d.conn)
                   THEN /\ pending' = [op |-> "stop", eq |-> E, ctype |-> "none",
                                       conn |-> old]
                        /\ response' = NoResponse
                        /\ UNCHANGED <<active_connectors, stopped>>
                   ELSE /\ active_connectors' = [active_connectors EXCEPT ![E] = 0]
                        /\ stopped' = stopped \cup {old}
                        /\ response' = [op |-> "stop", eq |-> E, ctype |-> "none",
                                        status |-> 200, new |-> 0, old |-> old]
                        /\ UNCHANGED pending

\* thread.join(timeout=2) returns: the thread has exited, or the two seconds
\* passed while it was blocked; the handler then runs to its end
JoinReturn(ok) ==
    /\ pending.op \in {"setup", "stop"}
    /\ LET old == pending.conn
           E == pending.eq
       IN  /\ JoinOver(connectors[old])
           /\ IF pending.op = "stop"
              THEN /\ active_connectors' = [active_connectors EXCEPT ![E] = 0]
                   /\ stopped' = stopped \cup {old}
                   /\ response' = [op |-> "stop", eq |-> E, ctype |-> "none",
                                   status |-> 200, new |-> 0, old |-> old]
                   /\ UNCHANGED connectors
              ELSE SetupTail(connectors, [active_connectors EXCEPT ![E] = 0],
                             stopped \cup {old}, E, pending.ctype, ok, old)
    /\ pending' = Idle
    /\ invoked' = 0
    /\ UNCHANGED <<installed, lastCall, pureVars>>

\* GET /connector
ClassName(T) ==
    CASE T = "csv" -> "CSVFileConnector"
      [] T = "api" -> "APIConnector"
      [] T = "modbus" -> "ModbusConnector"
      [] T = "opcua" -> "OPCUAConnector"
      [] OTHER -> "none"

list_connectors ==
    {[equipment_id |-> E,
      connector_type |-> ClassName(connectors[active_connectors[E]].ctype),
      status |-> IF connectors[active_connectors[E]].connected
                 THEN "running" ELSE "stopped"] :
        E \in {F \in EquipmentIds : active_connectors[F] # 0}}

(***************************************************************************)
(* Direct use of one connector object (the Connector interface itself).    *)
(***************************************************************************)
\* create_connector(equipment_id, connector_type, ...): a direct call
ConnCreate(E, T) ==
    /\ pending = Idle
    /\ FreeSlots # {}
    /\ LET r == create_connector(E, T)
       IN  IF r.raised
           THEN /\ lastCall' = [op |-> "create", conn |-> 0, result |-> "raised",
                                arg |-> T, before |-> NoConnector]
                /\ UNCHANGED connectors
           ELSE /\ connectors' = [connectors EXCEPT ![NextSlot] = r.conn]
                /\ lastCall' = [op |-> "create", conn |-> NextSlot, result |-> "ok",
                                arg |-> T, before |-> NoConnector]
    /\ invoked' = 0
    /\ UNCHANGED <<active_connectors, installed, pending, response, stopped, pureVars>>

\* connector.connect()
ConnConnect(n, ok) ==
    /\ pending = Idle
    /\ connectors[n] # NoConnector
    /\ connectors' = [connectors EXCEPT ![n] = Connect(connectors[n], ok)]
    /\ lastCall' = [op |-> "connect", conn |-> n, arg |-> "none",
                    result |-> IF ok THEN "ok" ELSE "raised",
                    before |-> connectors[n]]
    /\ invoked' = 0
    /\ UNCHANGED <<active_connectors, installed, pending, response, stopped, pureVars>>

\* connector.read_data(loop=True); called while no earlier polling thread of
\* this object is alive
ConnReadData(n) ==
    /\ pending = Idle
    /\ connectors[n] # NoConnector
    /\ ~IsAlive(connectors[n])
    /\ IF connectors[n].connected
       THEN /\ connectors' = [connectors EXCEPT ![n] = ReadDataLoop(connectors[n])]
            /\ lastCall' = [op |-> "read_data", conn |-> n, arg |-> "none", result |-> "ok",
                            before |-> connectors[n]]
       ELSE /\ lastCall' = [op |-> "read_data", conn |-> n, arg |-> "none", result |-> "raised",
                            before |-> connectors[n]]
            /\ UNCHANGED connectors
    /\ invoked' = 0
    /\ UNCHANGED <<active_connectors, installed, pending, response, stopped, pureVars>>

\* connector.disconnect()
ConnDisconnect(n, libOk) ==
    /\ pending = Idle
    /\ connectors[n] # NoConnector
    /\ LET d == DisconnectBegin(connectors[n], libOk)
       IN  /\ connectors' = [connectors EXCEPT ![n] = d.conn]
           /\ IF d.raised
              THEN /\ lastCall' = [op |-> "disconnect", conn |-> n, arg |-> "none",
                                   result |-> "raised", before |-> connectors[n]]
                   /\ UNCHANGED pending
              ELSE IF IsAlive(d.conn)
              THEN /\ lastCall' = [op |-> "disconnect", conn |-> n, arg |-> "none",
                                   result |-> "joining", before |-> connectors[n]]
                   /\ pending' = [op |-> "disconnect", eq |-> "none",
                                  ctype |-> "none", conn |-> n]
              ELSE /\ lastCall' = [op |-> "disconnect", conn |-> n, arg |-> "none",
                                   result |-> "ok", before |-> connectors[n]]
                   /\ UNCHANGED pending
    /\ invoked' = 0
    /\ UNCHANGED <<active_connectors, installed, response, stopped, pureVars>>

\* the thread.join(timeout=2) of a direct disconnect() returns; disconnect()
\* then logs and returns True
ConnJoinReturn ==
    /\ pending.op = "disconnect"
    /\ JoinOver(connectors[pending.conn])
    /\ lastCall' = [lastCall EXCEPT !.result = "ok"]
    /\ pending' = Idle
    /\ invoked' = 0
    /\ UNCHANGED <<connectors, active_connectors, installed, response, stopped, pureVars>>

Thread ==
    \E n \in ConnIds :
        \/ LoopTest(n)
        \/ \E readOk \in BOOLEAN : LoopBody(n, readOk)
        \/ LoopWake(n)

Next ==
    \/ \E E \in EquipmentIds, T \in ConnectorTypes, ok \in BOOLEAN, libOk \in BOOLEAN :
           SetupConnector(E, T, ok, libOk)
    \/ \E E \in EquipmentIds, libOk \in BOOLEAN : StopConnector(E, libOk)
    \/ \E ok \in BOOLEAN : JoinReturn(ok)
    \/ Thread

\* the API server: requests to the connector endpoints and the polling threads
Spec == Init /\ [][Next]_vars

\* the scheduler runs a thread that is runnable (at the loop test, or in the
\* csv loop body, which does not wait on anything), and the join timer
\* expires; a network read or a sleep may last for ever
Fairness ==
    /\ WF_vars(\E ok \in BOOLEAN : JoinReturn(ok))
    /\ \A n \in ConnIds : WF_vars(LoopTest(n))
    /\ \A n \in ConnIds : WF_vars(connectors[n].ctype = "csv" /\ LoopBody(n, TRUE))

SpecLive == Init /\ [][Next]_vars /\ Fairness

\* fair scheduling and reads that return: every step of a polling thread that
\* can be taken is taken
FairPolling ==
    \A n \in ConnIds :
        /\ WF_vars(LoopTest(n))
        /\ WF_vars(\E readOk \in BOOLEAN : LoopBody(n, readOk))
        /\ WF_vars(LoopWake(n))

SpecFair == Init /\ [][Next]_vars /\ FairPolling

NextConn ==
    \/ \E E \in EquipmentIds, T \in ConnectorTypes : ConnCreate(E, T)
    \/ \E n \in ConnIds, ok \in BOOLEAN : ConnConnect(n, ok)
    \/ \E n \in ConnIds : ConnReadData(n)
    \/ \E n \in ConnIds, libOk \in BOOLEAN : ConnDisconnect(n, libOk)
    \/ ConnJoinReturn
    \/ Thread

\* a client of the Connector interface calling its methods in any order
SpecConn == Init /\ [][NextConn]_vars

NextFactory == \E E \in EquipmentIds, T \in ConnectorTypes : ConnCreate(E, T)

\* calls of the factory alone, for every type and every set of installed transports
SpecFactory == Init /\ [][NextFactory]_vars

(***************************************************************************)
(* Claims about the supervisor (checked under Spec).                       *)
(***************************************************************************)
Constructed == {n \in ConnIds : connectors[n] # NoConnector}
Registered == {active_connectors[E] : E \in EquipmentIds} \ {0}
EntriesFor(E) == {x \in list_connectors : x.equipment_id = E}

\* C1: once setup(E, B) has succeeded for an equipment id E that had a type-A
\* connector registered, list() holds exactly one entry for E, that entry is
\* the new type-B connector, and the replaced connector has its connected and
\* loop flags cleared; a connector whose stop has returned never has them set.
C1_AtMostOneConnector ==
    /\ (response.op = "setup" /\ response.status = 200 /\ response.old # 0) =>
          /\ Cardinality(EntriesFor(response.eq)) = 1
          /\ \A x \in EntriesFor(response.eq) :
                 x.connector_type = ClassName(response.ctype)
          /\ active_connectors[response.eq] = response.new
          /\ response.new # response.old
          /\ ~connectors[response.old].connected
          /\ ~connectors[response.old].loop
    /\ \A n \in stopped : ~connectors[n].connected /\ ~connectors[n].loop

\* C1 witness: a setup that replaced a registered connector by one of another type
C1_Witness ==
    /\ response.op = "setup" /\ response.status = 200 /\ response.old # 0
    /\ connectors[response.old].ctype # connectors[response.new].ctype

\* C2: after stop(E) has returned (the last request answered was a stop of E
\* that succeeded), the callback of E's stopped connector is not invoked.
C2_NoCallbackAfterStop ==
    (response.op = "stop" /\ response.status = 200) => invoked # response.old

\* C3: for every equipment id there is at most one registry entry and at most
\* one live polling task.
C3_OneLiveTask ==
    \A E \in EquipmentIds :
        /\ Cardinality(EntriesFor(E)) <= 1
        /\ Cardinality({n \in ConnIds : /\ connectors[n].equipment_id = E
                                        /\ IsAlive(connectors[n])}) <= 1

\* C10: a setup that fails (unknown or unavailable type, connect() raising, or
\* the stop of the old connector raising) answers 500 in the same request,
\* starts no polling thread, leaves the connector it constructed (if any)
\* unconnected and creates no registry entry for it; and such a connector
\* never gets a thread or an entry later.
C10_FailedSetupState ==
    /\ \A n \in Constructed :
           connectors[n].thread = "none" =>
               /\ ~connectors[n].connected
               /\ ~connectors[n].loop
               /\ n \notin Registered
    /\ (response.op = "setup" /\ response.status = 500 /\ response.new # 0) =>
           /\ connectors[response.new].thread = "none"
           /\ connectors[response.new].equipment_id = response.eq
    /\ (response.op = "setup" /\ response.status = 500 /\ ~Supported(response.ctype)) =>
           response.new = 0

C10_FailedSetupStep ==
    /\ \A n \in ConnIds :
           (connectors[n] # NoConnector /\ connectors[n].thread = "none") =>
               connectors'[n].thread = "none"
    /\ (response'.op = "setup" /\ response'.status = 500) =>
           /\ \A n \in ConnIds : IsAlive(connectors'[n]) => IsAlive(connectors[n])
           /\ \A E \in EquipmentIds :
                  active_connectors'[E] \in {0, active_connectors[E]}

C10_SetupFailsClean == []C10_FailedSetupState /\ [][C10_FailedSetupStep]_vars

\* C10 witness: a setup whose connect() failed, after replacing a registered connector
C10_Witness ==
    /\ response.op = "setup" /\ response.status = 500
    /\ response.new # 0 /\ response.old # 0
    /\ connectors[response.new].thread = "none"

\* C12: stop(E) for an equipment id without a registry entry answers 404 and
\* leaves the registry and every connector as they were; stop(E) for a
\* registered E answers with success ("stopped").
C12_StopAnswer ==
    response.op = "stop" =>
        IF response.old = 0
        THEN response.status = 404 /\ active_connectors[response.eq] = 0
        ELSE response.status = 200

C12_NotFoundStep ==
    (response'.op = "stop" /\ response'.status = 404 /\ response' # response) =>
        /\ connectors' = connectors
        /\ active_connectors' = active_connectors

C12_StopOutcome == []C12_StopAnswer /\ [][C12_NotFoundStep]_vars

\* C14: once a stop(E) of a registered equipment id has finished, E has no
\* registry entry, whether disconnect() succeeded, timed out waiting for the
\* polling thread, or raised.
C14_EntryRemovedRegardless ==
    (response.op = "stop" /\ response.old # 0) => active_connectors[response.eq] = 0

\* C16: a failure inside one poll iteration never ends the polling thread of
\* any connector variant: a thread has exited only if its connector was
\* stopped (its loop or connected flag cleared).
C16_LoopSurvivesFailure ==
    \A n \in ConnIds :
        connectors[n].thread = "done" =>
            ~(connectors[n].loop /\ connectors[n].connected)

\* (checked under SpecLive)
\* C15: a stop(E) that has begun always finishes, even when the polling
\* thread it waits for never exits (blocked in a read or in its sleep).
C15_StopTerminates ==
    (pending.op = "stop") ~> (pending = Idle /\ response.op = "stop")

\* C15 witness: a stop has answered although the polling thread it waited for
\* is still alive
C15_Witness ==
    /\ response.op = "stop" /\ response.status = 200
    /\ IsAlive(connectors[response.old])

\* C27: replacement is not atomic.  In a setup(E, B) for a registered E, the
\* old connector A is disconnected and removed from the registry before B is
\* created; when creating or connecting B then fails, setup answers with an
\* error, E has no registry entry, and no connector of E is connected or has
\* its loop flag set.
C27_ReplacementNotAtomic ==
    /\ (response.op = "setup" /\ response.old # 0 /\ response.new # 0) =>
           /\ response.old \in stopped
           /\ ~connectors[response.old].connected
    /\ (/\ response.op = "setup" /\ response.status = 500
        /\ response.old # 0 /\ response.old \in stopped) =>
           /\ active_connectors[response.eq] = 0
           /\ \A n \in ConnIds :
                  connectors[n].equipment_id = response.eq =>
                      ~connectors[n].connected /\ ~connectors[n].loop

\* C27 witness: a replacing setup failed at creating the new connector after
\* the old one was stopped, and the equipment id has no entry
C27_Witness ==
    /\ response.op = "setup" /\ response.status = 500
    /\ response.old # 0 /\ response.old \in stopped
    /\ response.new = 0 /\ ~Supported(response.ctype)
    /\ active_connectors[response.eq] = 0

\* C28: between requests (no handler is inside disconnect(), which blocks the
\* event loop that would serve list()), every connector in the registry has
\* its connected flag set, so every entry of list() has status "running", also
\* an entry whose polling thread has exited.
C28_ListAlwaysRunning ==
    pending = Idle =>
        /\ \A E \in EquipmentIds :
               active_connectors[E] # 0 => connectors[active_connectors[E]].connected
        /\ \A x \in list_connectors : x.status = "running"

\* C28 witness: list() reports "running" for an entry whose thread has exited
C28_Witness ==
    /\ pending = Idle
    /\ \E E \in EquipmentIds :
           /\ active_connectors[E] # 0
           /\ connectors[active_connectors[E]].thread = "done"
           /\ \E x \in EntriesFor(E) : x.status = "running"

\* a step of a setup or stop handler, and the equipment id it is for
Requested == <<pending, response>>' # <<pending, response>>
Target == IF pending' # Idle THEN pending'.eq ELSE response'.eq

\* C30: setup(E) and stop(E) change only E's registry entry and E's
\* connectors: for every other equipment id F the registry entry of F and
\* the flags and polling thread of every connector of F are left as they were.
C30_OtherEquipmentUntouched ==
    [][Requested =>
          \A F \in EquipmentIds \ {Target} :
              /\ active_connectors'[F] = active_connectors[F]
              /\ \A n \in ConnIds :
                     connectors[n].equipment_id = F => connectors'[n] = connectors[n]]_vars

\* C30 witness: a setup or stop of one equipment id has succeeded while another
\* equipment id has a registered connector whose thread is polling
C30_Witness ==
    /\ response.op \in {"setup", "stop"} /\ response.status = 200
    /\ \E F \in EquipmentIds \ {response.eq} :
           /\ active_connectors[F] # 0
           /\ connectors[active_connectors[F]].connected
           /\ IsAlive(connectors[active_connectors[F]])

\* disconnect() has been called on connector n by a request handler
DisconnectCalled(n) == pending.conn = n \/ response.old = n

\* (checked under SpecFair)
\* C22: after disconnect() has been called on a polling connector, its polling
\* thread eventually exits, given fair scheduling and reads that return.
C22_CancellationLive ==
    \A n \in ConnIds :
        (DisconnectCalled(n) /\ IsAlive(connectors[n])) ~> ~IsAlive(connectors[n])

(***************************************************************************)
(* Claims about the Connector interface (checked under SpecConn).          *)
(***************************************************************************)
\* C9: disconnect() called on a connector that is already disconnected (never
\* connected, or disconnected before) succeeds and leaves the flags as a
\* single disconnect() leaves them.
C9_DisconnectIdempotent ==
    (lastCall.op = "disconnect" /\ ~lastCall.before.connected
        /\ lastCall.result # "joining") =>
        /\ lastCall.result = "ok"
        /\ ~connectors[lastCall.conn].connected
        /\ ~connectors[lastCall.conn].loop

\* C13: when the polling thread has not exited by the time the bounded wait of
\* disconnect() is over, disconnect() reports the timeout and does not return
\* success: a disconnect() that returned success left no live polling thread.
C13_TimeoutReported ==
    (lastCall.op = "disconnect" /\ lastCall.result = "ok") =>
        ~IsAlive(connectors[lastCall.conn])

\* C23: Stopped is terminal: a connector that has completed disconnect() is
\* not brought back to Connected or Polling by a later call; in particular
\* not by the call that follows the disconnect().
C23_StoppedTerminal ==
    [][\A n \in ConnIds :
          (lastCall.op = "disconnect" /\ lastCall.result = "ok" /\ lastCall.conn = n) =>
              (~connectors'[n].connected /\ ~connectors'[n].loop)]_vars

\* (checked under SpecFactory)
\* C11: create_connector either returns a connector of exactly the requested
\* type or raises; for an optional type (modbus, opcua) whose transport is not
\* installed, and for an unknown type, it raises and constructs nothing, so
\* no connector of a type that is not available ever exists.
C11_FactoryExactOrRaise ==
    /\ lastCall.op = "create" =>
           IF Supported(lastCall.arg)
           THEN /\ lastCall.result = "ok"
                /\ lastCall.conn \in Constructed
                /\ connectors[lastCall.conn].ctype = lastCall.arg
           ELSE lastCall.result = "raised" /\ lastCall.conn = 0
    /\ \A n \in Constructed : Supported(connectors[n].ctype)

\* C11 witness: a create for an optional type whose transport is missing
\* raised, after a create of an available type had returned a connector
C11_Witness ==
    /\ lastCall.op = "create" /\ lastCall.result = "raised"
    /\ lastCall.arg \in OptionalTypes \ installed
    /\ Constructed # {}

(***************************************************************************)
(* Readings.  A reading is a Python dict, here a function from field names *)
(* to values; Python values of different types are records of one shape,   *)
(* t naming the type:                                                      *)
(*   "str"   the string s                                                  *)
(*   "f32"   the float whose IEEE-754 single bit pattern is a * 2^16 + b    *)
(*   "int"   the int a * 2^16 + b;  "num": the float equal to that int     *)
(*   "bool"  a = 1 for True, 0 for False                                   *)
(*   "iso"   the text of a timestamp: second a, fraction b (-1: no         *)
(*           fraction is written)                                          *)
(***************************************************************************)
Val(t, a, b, s) == [t |-> t, a |-> a, b |-> b, s |-> s]

\* dict.update(e) / d[k] = v
Update(d, e) ==
    [k \in DOMAIN d \cup DOMAIN e |-> IF k \in DOMAIN e THEN e[k] ELSE d[k]]

Put(d, k, v) == [x \in DOMAIN d \cup {k} |-> IF x = k THEN v ELSE d[x]]

\* datetime.isoformat(): the fraction is written only when microsecond # 0
isoformat(ts) ==
    Val("iso", ts.second, IF ts.microsecond = 0 THEN -1 ELSE ts.microsecond, "")

\* DataConnector.process_reading, for dict data: the reading handed to the callback
process_reading(equipment_id, timestamp, data) ==
    LET head == [k \in {"equipment_id", "timestamp"} |->
                    IF k = "equipment_id" THEN Val("str", 0, 0, equipment_id)
                                          ELSE isoformat(timestamp)]
    IN  Update(head, data)

(***************************************************************************)
(* ModbusConnector._read_once and _decode_ieee.                            *)
(***************************************************************************)
\* the 16-bit words the device may hold: 0x0000, 0x447A
Words == {0, 17530}
RegisterKinds == {"holding", "input", "coil", "discrete", "analog"}
DataTypes == {"float", "int32", "int16"}
\* self.registers.items(), in insertion order
RegOrder == <<"temperature", "pressure">>
RegNames == {RegOrder[i] : i \in 1..Len(RegOrder)}

\* array.array('H', [w]).tobytes(): the two bytes of w in the host's byte order
ToBytes(w) ==
    IF byteorder = "little" THEN <<w % 256, w \div 256>> ELSE <<w \div 256, w % 256>>

\* _decode_ieee: struct.unpack('>f', ...) reads the four bytes most significant first
decode_ieee(register1, register2) ==
    LET temp_bytes == ToBytes(register1) \o ToBytes(register2)
    IN  Val("f32", temp_bytes[1] * 256 + temp_bytes[2],
                   temp_bytes[3] * 256 + temp_bytes[4], "")

\* value * scaling with the default scaling 1.0: an int becomes the equal float
Scale(v) == IF v.t = "int" THEN [v EXCEPT !.t = "num"] ELSE v

\* the data_type branches for a holding/input result; the last two branches
\* (int16, and everything else) both take registers[0]
Decode(config, regs) ==
    IF config.data_type = "float" /\ Len(regs) >= 2
    THEN decode_ieee(regs[1], regs[2])
    ELSE IF config.data_type = "int32" /\ Len(regs) >= 2
    THEN Val("int", regs[1], regs[2], "")
    ELSE Val("int", 0, regs[1], "")

\* one iteration of `for name, config in self.registers.items()`
ReadRegister(readings, name) ==
    LET config == registers[name]
        result == device[name]
    IN  IF config.type \notin {"holding", "input", "coil", "discrete"}
        THEN readings
        ELSE IF result.isError
        THEN readings
        ELSE IF config.type \in {"holding", "input"}
        THEN Put(readings, name,
                 Scale(Decode(config, SubSeq(result.words, 1, config.count))))
        ELSE Put(readings, name, Val("bool", IF result.bit THEN 1 ELSE 0, 0, ""))

RECURSIVE ReadRegisters(_, _)
ReadRegisters(readings, i) ==
    IF i > Len(RegOrder) THEN readings
    ELSE ReadRegisters(ReadRegister(readings, RegOrder[i]), i + 1)

\* the instant datetime.utcnow() returns in the runs of the register reader
RegClock == [second |-> 1, microsecond |-> 5]

\* ModbusConnector._read_once
ModbusReadOnce ==
    /\ emitted = <<>>
    /\ emitted' = <<process_reading("EQ1", RegClock, ReadRegisters(<<>>, 1))>>
    /\ UNCHANGED <<byteorder, registers, device, supVars, rdVars, procVars, predVars, ingVars, csvLoop, history>>

InitModbus ==
    /\ SupIdle
    /\ byteorder \in {"little", "big"}
    /\ registers \in [RegNames -> [type : RegisterKinds, count : {1, 2},
                                   data_type : DataTypes]]
    /\ \E w \in [words : Words \X Words, bit : BOOLEAN] :
           device \in [RegNames -> [isError : BOOLEAN, words : {w.words},
                                    bit : {w.bit}]]
    /\ emitted = <<>>
    /\ RdIdle
    /\ ProcIdle
    /\ PredIdle
    /\ IngIdle
    /\ CsvIdle
    /\ history = <<>>

NextModbus == ModbusReadOnce

\* one read of a Modbus register map, for every map, device answer and host
SpecModbus == InitModbus /\ [][NextModbus]_vars

\* registers needed by a data_type
Width(data_type) == IF data_type \in {"float", "int32"} THEN 2 ELSE 1

\* a RegisterSpec the device answers and whose count covers its data_type
WellFormed(name) ==
    /\ registers[name].type \in {"holding", "input", "coil", "discrete"}
    /\ ~device[name].isError
    /\ registers[name].type \in {"holding", "input"} =>
           registers[name].count >= Width(registers[name].data_type)

\* the value of an "f32": [exact |-> TRUE, int |-> n] when it is the integer n
F32Value(v) ==
    LET sign == v.a \div 32768
        e == (v.a \div 128) % 256
        m == (v.a % 128) * 65536 + v.b
        shift == 150 - e
    IN  IF e = 0 /\ m = 0 THEN [exact |-> TRUE, int |-> 0]
        ELSE IF e >= 127 /\ e <= 150 /\ (8388608 + m) % (2 ^ shift) = 0
        THEN [exact |-> TRUE,
              int |-> (IF sign = 1 THEN -1 ELSE 1) * ((8388608 + m) \div (2 ^ shift))]
        ELSE [exact |-> FALSE, int |-> 0]

\* C4: with one well-formed and one malformed RegisterSpec, _read_once emits
\* exactly one reading, which holds the well-formed field and not the
\* malformed one.
C4_MalformedFieldSkipped ==
    (emitted # <<>> /\ Cardinality({name \in RegNames : WellFormed(name)}) = 1) =>
        /\ Len(emitted) = 1
        /\ \A name \in RegNames : name \in DOMAIN emitted[1] <=> WellFormed(name)

\* C5: a float field read from the registers (w0, w1) is the float whose bit
\* pattern is w0 * 65536 + w1, so (0x447A, 0x0000) decodes to 1000.0.
C5_Float32BigEndian ==
    emitted # <<>> =>
        \A name \in RegNames :
            (/\ registers[name].type \in {"holding", "input"}
             /\ ~device[name].isError
             /\ registers[name].data_type = "float"
             /\ registers[name].count >= 2) =>
                /\ name \in DOMAIN emitted[1]
                /\ emitted[1][name] =
                       Val("f32", device[name].words[1], device[name].words[2], "")
                /\ device[name].words = <<17530, 0>> =>
                       F32Value(emitted[1][name]) = [exact |-> TRUE, int |-> 1000]

\* a configured field the device answered: its value is decoded
Answered(name) ==
    /\ registers[name].type \in {"holding", "input", "coil", "discrete"}
    /\ ~device[name].isError

\* C21: _read_once of the register map emits a reading (and calls the
\* callback) if and only if at least one configured field was decoded; when
\* every field fails, nothing is emitted.
C21_EmitsIffDecoded ==
    [][(emitted' # <<>>) <=> (\E name \in RegNames : Answered(name))]_vars

(***************************************************************************)
(* The wire format of a reading: process_reading flattens the equipment    *)
(* id, the timestamp and the data into one dict; data_callback takes it    *)
(* apart again before it builds the SensorReading row.                     *)
(***************************************************************************)
\* field names a data source may deliver (CSV columns, JSON keys, register names)
FieldNames == {"temperature", "status", "equipment_id", "timestamp", "anomaly_score"}
\* values a data source may deliver: 70.0, the text "idle", the text of an instant
DataValues == {Val("num", 0, 70, ""), Val("str", 0, 0, "idle"), Val("iso", 3, -1, "")}
Instants == [second : {1, 2}, microsecond : {0, 5}]

\* all dicts with keys among names and values in values
Dicts(names, values) == UNION {[d -> values] : d \in SUBSET names}

\* datetime.fromisoformat(x): <<instant>>, or <<>> when it raises (x is no
\* string, or not the text of an instant)
fromisoformat(x) ==
    IF x.t = "iso"
    THEN <<[second |-> x.a, microsecond |-> IF x.b = -1 THEN 0 ELSE x.b]>>
    ELSE <<>>

\* the keys data_callback does not copy into sensor_data
ReservedKeys == {"timestamp", "equipment_id", "anomaly_detected", "anomaly_score"}

\* the result of AnomalyDetector.detect that data_callback writes into the reading
AnomalyResult ==
    [k \in {"anomaly_detected", "anomaly_score"} |->
        IF k = "anomaly_detected" THEN Val("bool", 0, 0, "") ELSE Val("num", 0, 0, "")]

\* data_callback from the anomaly fields to the arguments of SensorReading(...):
\* ok is FALSE when the try block raises (the reading is dropped)
ParseReading(r0) ==
    LET r == Update(r0, AnomalyResult)
        timestamp == fromisoformat(r["timestamp"])
        sensor_data == [k \in DOMAIN r \ ReservedKeys |-> r[k]]
    IN  IF timestamp = <<>>
        THEN [ok |-> FALSE, equipment_id |-> r["equipment_id"],
              timestamp |-> [second |-> 0, microsecond |-> 0], values |-> <<>>]
        ELSE [ok |-> TRUE, equipment_id |-> r["equipment_id"],
              timestamp |-> timestamp[1], values |-> sensor_data]

\* a connector hands acquired data to process_reading
EmitReading ==
    /\ source # <<>> /\ reading = <<>>
    /\ reading' = <<process_reading(source[1].equipment_id, source[1].timestamp,
                                    source[1].data)>>
    /\ UNCHANGED <<source, parsed, supVars, regVars, procVars, predVars, ingVars, csvLoop, history>>

\* the callback takes the reading apart
CallbackParse ==
    /\ reading # <<>> /\ parsed = <<>>
    /\ parsed' = <<ParseReading(reading[1])>>
    /\ UNCHANGED <<source, reading, supVars, regVars, procVars, predVars, ingVars, csvLoop, history>>

InitReading ==
    /\ SupIdle
    /\ RegIdle
    /\ source \in {<<x>> : x \in [equipment_id : EquipmentIds, timestamp : Instants,
                                 data : Dicts(FieldNames, DataValues)]}
    /\ reading = <<>>
    /\ parsed = <<>>
    /\ ProcIdle
    /\ PredIdle
    /\ IngIdle
    /\ CsvIdle
    /\ history = <<>>

NextReading == EmitReading \/ CallbackParse

\* one reading from acquisition to the arguments of the database row
SpecReading == InitReading /\ [][NextReading]_vars

\* C8: the reading built from an equipment id, a timestamp and a map of
\* values, parsed back by the callback, yields the same equipment id, the
\* same timestamp and the same values, whatever the field names are.
C8_ReadingRoundTrip ==
    parsed # <<>> =>
        /\ parsed[1].ok
        /\ parsed[1].equipment_id = Val("str", 0, 0, source[1].equipment_id)
        /\ parsed[1].timestamp = source[1].timestamp
        /\ parsed[1].values = source[1].data

\* C29: every emitted reading carries the equipment id its connector was
\* configured with and the acquisition timestamp the connector set, whatever
\* field names the source data has (equipment_id and timestamp included).
C29_IdentityPreserved ==
    reading # <<>> =>
        /\ reading[1]["equipment_id"] = Val("str", 0, 0, source[1].equipment_id)
        /\ reading[1]["timestamp"] = isoformat(source[1].timestamp)

(***************************************************************************)
(* DataProcessor (backend/models/data_processor.py), for frames with one   *)
(* numeric column and no timestamp column: [col |-> name, vals |-> the     *)
(* column's values, one per row].  A number that need not be an integer is *)
(* a fraction [num, den]; a standard deviation is given by its square.     *)
(***************************************************************************)
\* longest frame passed to process
MaxRows == 6
\* rolling(window=5, min_periods=1)
RollingWindow == 5
MinPeriods == 1

SensorValues == {1, 2, 3, 4, 5}
Columns == {"temperature", "pressure"}

RECURSIVE Sum(_)
Sum(q) == IF q = <<>> THEN 0 ELSE q[1] + Sum(Tail(q))

RECURSIVE SumSq(_)
SumSq(q) == IF q = <<>> THEN 0 ELSE q[1] * q[1] + SumSq(Tail(q))

SeqMin(q) == CHOOSE x \in {q[j] : j \in 1..Len(q)} : \A j \in 1..Len(q) : x <= q[j]
SeqMax(q) == CHOOSE x \in {q[j] : j \in 1..Len(q)} : \A j \in 1..Len(q) : x >= q[j]

NaN == [nan |-> TRUE, num |-> 0, den |-> 1]
Frac(n, d) == [nan |-> FALSE, num |-> n, den |-> d]

\* a rolling window that is one row too short
WindowShort(vals, i) ==
    SubSeq(vals, IF i - RollingWindow + 2 < 1 THEN 1 ELSE i - RollingWindow + 2, i)

\* Series.rolling(window=5): the rows of the window that ends at row i (rows from 1)
Window(vals, i) ==
    SubSeq(vals, IF i - RollingWindow + 1 < 1 THEN 1 ELSE i - RollingWindow + 1, i)

\* .rolling(...).mean(): NaN with fewer than min_periods observations
RollingMean(vals, i) ==
    LET w == Window(vals, i)
    IN  IF Len(w) < MinPeriods THEN NaN ELSE Frac(Sum(w), Len(w))

\* .rolling(...).std(), squared: the sample variance (ddof = 1), NaN for one observation
RollingStdSq(vals, i) ==
    LET w == Window(vals, i)
        n == Len(w)
    IN  IF n < MinPeriods \/ n < 2 THEN NaN
        ELSE Frac(n * SumSq(w) - Sum(w) * Sum(w), n * (n - 1))

RollingMin(vals, i) ==
    LET w == Window(vals, i)
    IN  IF Len(w) < MinPeriods THEN NaN ELSE Frac(SeqMin(w), 1)

RollingMax(vals, i) ==
    LET w == Window(vals, i)
    IN  IF Len(w) < MinPeriods THEN NaN ELSE Frac(SeqMax(w), 1)

\* .fillna(0)
FillNa0(x) == IF x.nan THEN Frac(0, 1) ELSE x

\* _handle_missing_values: identifies the numerical columns on the first call only
\* (the frames here have no missing values to fill)
IdentifyColumns(nc, df) ==
    IF nc.none THEN [none |-> FALSE, cols |-> {df.col}] ELSE nc

\* _engineer_features: the columns of the returned frame, keyed by
\* <<column, suffix>>; the column itself has the suffix ""
EngineerFeatures(nc, df) ==
    LET n == Len(df.vals)
        base == [k \in {<<df.col, "">>} |-> [i \in 1..n |-> Frac(df.vals[i], 1)]]
        rolling ==
            [k \in {<<df.col, x>> : x \in {"rolling_mean", "rolling_std",
                                           "rolling_min", "rolling_max"}} |->
                [i \in 1..n |->
                    CASE k[2] = "rolling_mean" -> RollingMean(df.vals, i)
                      [] k[2] = "rolling_std" -> FillNa0(RollingStdSq(df.vals, i))
                      [] k[2] = "rolling_min" -> RollingMin(df.vals, i)
                      [] OTHER -> RollingMax(df.vals, i)]]
    IN  IF n > 1 /\ nc.cols # {} /\ df.col \in nc.cols /\ n >= 5
        THEN Update(base, rolling)
        ELSE base

\* DataProcessor.process on the next frame
Process ==
    /\ frames # <<>>
    /\ LET df == Head(frames)
           nc == IdentifyColumns(numerical_columns, df)
       IN  /\ numerical_columns' = nc
           /\ features' = <<[frame |-> df, out |-> EngineerFeatures(nc, df)]>>
    /\ frames' = Tail(frames)
    /\ UNCHANGED <<supVars, regVars, rdVars, predVars, ingVars, csvLoop, history>>

Batches == UNION {[1..n -> SensorValues] : n \in 1..MaxRows}

\* a fresh processor that is given one frame, or first a single reading of
\* some column and then the frame
InitProc ==
    /\ SupIdle
    /\ RegIdle
    /\ RdIdle
    /\ numerical_columns = [none |-> TRUE, cols |-> {}]
    /\ \E vals \in Batches :
          frames \in {<<[col |-> "temperature", vals |-> vals]>>}
                     \cup {<<[col |-> c, vals |-> <<3>>],
                             [col |-> "temperature", vals |-> vals]>> : c \in Columns}
    /\ features = <<>>
    /\ PredIdle
    /\ IngIdle
    /\ CsvIdle
    /\ history = <<>>

NextProc == Process

SpecProc == InitProc /\ [][NextProc]_vars

\* sum of the last k values up to row i
RECURSIVE SumLast(_, _, _)
SumLast(vals, i, k) == IF k = 0 THEN 0 ELSE vals[i] + SumLast(vals, i - 1, k - 1)

RECURSIVE Norm(_)
\* the bits without leading (most significant) zeros
Norm(b) == IF b = <<>> THEN <<>>
           ELSE IF b[Len(b)] = 0 THEN Norm(SubSeq(b, 1, Len(b) - 1)) ELSE b

Zeros(k) == [i \in 1..k |-> 0]
Shl(b, k) == IF b = <<>> THEN <<>> ELSE Zeros(k) \o b

RECURSIVE AddC(_, _, _)
AddC(a, b, c) ==
    IF a = <<>> /\ b = <<>> THEN (IF c = 1 THEN <<1>> ELSE <<>>)
    ELSE LET x == IF a = <<>> THEN 0 ELSE a[1]
             y == IF b = <<>> THEN 0 ELSE b[1]
             ta == IF a = <<>> THEN <<>> ELSE Tail(a)
             tb == IF b = <<>> THEN <<>> ELSE Tail(b)
         IN  <<(x + y + c) % 2>> \o AddC(ta, tb, (x + y + c) \div 2)

BAdd(a, b) == Norm(AddC(a, b, 0))

RECURSIVE SubB(_, _, _)
\* a - b - borrow, for a >= b
SubB(a, b, c) ==
    IF a = <<>> THEN <<>>
    ELSE LET y == IF b = <<>> THEN 0 ELSE b[1]
             tb == IF b = <<>> THEN <<>> ELSE Tail(b)
             d == a[1] - y - c
         IN  <<d % 2>> \o SubB(Tail(a), tb, IF d < 0 THEN 1 ELSE 0)

RECURSIVE BMul(_, _)
BMul(a, b) ==
    IF a = <<>> THEN <<>>
    ELSE BAdd(IF a[1] = 1 THEN b ELSE <<>>, Shl(BMul(Tail(a), b), 1))

RECURSIVE BLess(_, _)
\* a < b, for bits without leading zeros
BLess(a, b) ==
    IF Len(a) # Len(b) THEN Len(a) < Len(b)
    ELSE IF a = <<>> THEN FALSE
    ELSE IF a[Len(a)] # b[Len(b)] THEN a[Len(a)] < b[Len(b)]
    ELSE BLess(Norm(SubSeq(a, 1, Len(a) - 1)), Norm(SubSeq(b, 1, Len(b) - 1)))

RECURSIVE ToNat(_)
ToNat(b) == IF b = <<>> THEN 0 ELSE b[1] + 2 * ToNat(Tail(b))

RECURSIVE ToBits(_)
ToBits(n) == IF n = 0 THEN <<>> ELSE <<n % 2>> \o ToBits(n \div 2)

RECURSIVE HexBits(_)
\* the bits of a number written in hexadecimal digits, most significant first
HexBits(h) ==
    IF h = <<>> THEN <<>>
    ELSE LET d == h[Len(h)]
         IN  <<d % 2, (d \div 2) % 2, (d \div 4) % 2, d \div 8>>
                 \o HexBits(SubSeq(h, 1, Len(h) - 1))

RECURSIVE Canon(_, _)
\* the same value with an odd significand
Canon(sig, exp) ==
    IF Norm(sig) = <<>> THEN [sig |-> <<>>, exp |-> 0]
    ELSE IF sig[1] = 0 THEN Canon(Tail(sig), exp + 1)
    ELSE [sig |-> Norm(sig), exp |-> exp]

\* the double nearest to sig * 2^exp: round to 53 bits, ties to even
Round(sig0, exp) ==
    LET sig == Norm(sig0)
        n == Len(sig)
        d == n - 53
    IN  IF n <= 53 THEN Canon(sig, exp)
        ELSE LET kept == SubSeq(sig, d + 1, n)
                 guard == sig[d]
                 sticky == \E j \in 1..(d - 1) : sig[j] = 1
                 up == guard = 1 /\ (sticky \/ kept[1] = 1)
             IN  Canon(IF up THEN BAdd(kept, <<1>>) ELSE kept, exp + d)

MinExp(x, y) == IF x.exp < y.exp THEN x.exp ELSE y.exp
Aligned(x, e) == Shl(x.sig, x.exp - e)

FAdd(x, y) == Round(AddC(Aligned(x, MinExp(x, y)), Aligned(y, MinExp(x, y)), 0),
                    MinExp(x, y))
\* x - y for x >= y
FSub(x, y) == Round(SubB(Aligned(x, MinExp(x, y)), Aligned(y, MinExp(x, y)), 0),
                    MinExp(x, y))
FMul(x, y) == Round(BMul(x.sig, y.sig), x.exp + y.exp)
FGreater(x, y) == BLess(Norm(Aligned(y, MinExp(x, y))), Norm(Aligned(x, MinExp(x, y))))
FromInt(n) == Canon(ToBits(n), 0)
\* int(x): truncation toward zero, x >= 0
IntOf(x) ==
    IF x.exp >= 0 THEN ToNat(Shl(x.sig, x.exp))
    ELSE IF -x.exp >= Len(x.sig) THEN 0
    ELSE ToNat(SubSeq(x.sig, 1 - x.exp, Len(x.sig)))

\* the float literals of run_prediction: 0.0, 0.4 = 0x1.999999999999ap-2,
\* 0.6 = 0x1.3333333333333p-1
F00 == FromInt(0)
F04 == Canon(HexBits(<<1, 9, 9, 9, 9, 9, 9, 9, 9, 9, 9, 9, 9, 10>>), -54)
F06 == Canon(HexBits(<<1, 3, 3, 3, 3, 3, 3, 3, 3, 3, 3, 3, 3, 3>>), -53)

(***************************************************************************)
(* run_prediction (backend/app/main.py): the rule-based fallback.          *)
(***************************************************************************)
Temperatures == 83..90
Vibrations == 2..7

\* readings.get(key, default)
Get(d, key, default) == IF key \in DOMAIN d THEN d[key] ELSE default

\* the branch taken when ./models/predictive_model.pkl does not exist
RuleBased(readings) ==
    LET temperature == Get(readings, "temperature", 70)
        vibration == Get(readings, "vibration", 3)
        p0 == F00
        p1 == IF temperature > 85 THEN FAdd(p0, F04) ELSE p0
        failure_probability == IF vibration > 5 THEN FAdd(p1, F04) ELSE p1
        remaining_days == IntOf(FMul(FromInt(30), FSub(FromInt(1), failure_probability)))
    IN  [rule_based |-> TRUE,
         failure_probability |-> failure_probability,
         remaining_useful_life_days |-> remaining_days,
         recommended_action |-> IF FGreater(failure_probability, F06)
                                THEN "maintenance" ELSE "monitor"]

\* the answer of the trained model is not determined by this code
ModelBased == [rule_based |-> FALSE, failure_probability |-> F00,
               remaining_useful_life_days |-> 0, recommended_action |-> "model"]

\* POST /api/prediction for a known equipment id
RunPrediction ==
    /\ request # <<>> /\ prediction = <<>>
    /\ prediction' = <<IF request[1].model_exists THEN ModelBased
                       ELSE RuleBased(request[1].readings)>>
    /\ UNCHANGED <<request, supVars, regVars, rdVars, procVars, ingVars, csvLoop, history>>

InitPredict ==
    /\ SupIdle
    /\ RegIdle
    /\ RdIdle
    /\ ProcIdle
    /\ IngIdle
    /\ CsvIdle
    /\ history = <<>>
    /\ request \in {<<[readings |-> Update(t, v), model_exists |-> m]>> :
                       t \in Dicts({"temperature"}, Temperatures),
                       v \in Dicts({"vibration"}, Vibrations),
                       m \in BOOLEAN}
    /\ prediction = <<>>

NextPredict == RunPrediction

SpecPredict == InitPredict /\ [][NextPredict]_vars

\* number of thresholds a request exceeds: [temperature > 85] + [vibration > 5]
Exceeded(readings) ==
    (IF Get(readings, "temperature", 70) > 85 THEN 1 ELSE 0)
        + (IF Get(readings, "vibration", 3) > 5 THEN 1 ELSE 0)

\* C7: without a trained model the probability is 0.4 per exceeded threshold,
\* remaining days are floor(30 * (1 - p)), that is 30, 18 or 6, and the action
\* is "maintenance" iff p > 0.6 (both thresholds exceeded).
C7_RuleBasedFallback ==
    (prediction # <<>> /\ prediction[1].rule_based) =>
        LET k == Exceeded(request[1].readings)
        IN  /\ prediction[1].failure_probability =
                   (CASE k = 0 -> F00 [] k = 1 -> F04 [] OTHER -> Canon(F04.sig, F04.exp + 1))
            /\ prediction[1].remaining_useful_life_days = 30 - 12 * k
            /\ prediction[1].recommended_action = "maintenance" <=> k = 2

(***************************************************************************)
(* Ingestion: the polling threads call process_reading, which calls the    *)
(* callback that setup_connector registered (data_callback, main.py).      *)
(* A reading is [conn, seq, outcome]: the connector that produced it, its  *)
(* number in that connector's order, and what the stages of the callback   *)
(* would do with the readings of that connector's source: "ok",            *)
(* "proc_fails" (data_processor.process raises), "detect_fails"            *)
(* (anomaly_detector.detect raises), "db_fails" (the database block        *)
(* raises).                                                                *)
(***************************************************************************)
\* readings one polling thread produces in a behaviour
MaxReadings == 2

Pollers == {1, 2}
Outcomes == {"ok", "proc_fails", "detect_fails", "db_fails"}

Event(r, ev) == [r |-> r, ev |-> ev]

\* the body of data_callback: process, detect, then the database block, whose
\* try/except covers only the conversion and the insert
data_callback(r) ==
    CASE r.outcome = "proc_fails" -> [steps |-> <<>>, raised |-> TRUE]
      [] r.outcome = "detect_fails" ->
            [steps |-> <<Event(r, "processed")>>, raised |-> TRUE]
      [] r.outcome = "db_fails" ->
            [steps |-> <<Event(r, "processed"), Event(r, "scored"),
                         Event(r, "dropped")>>, raised |-> FALSE]
      [] OTHER ->
            [steps |-> <<Event(r, "processed"), Event(r, "scored"),
                         Event(r, "saved")>>, raised |-> FALSE]

\* self.callback(reading) in process_reading: data_callback is declared
\* `async def`, so the call builds a coroutine object that holds the body and
\* returns it without running any of it; process_reading drops the object
CallCallback(r) ==
    [steps |-> <<>>, raised |-> FALSE, coroutine |-> <<data_callback(r)>>]

\* a loop that builds the next reading without waiting for the callback
MayProduceAnytime(p) == p.pc # "crashed"

\* the loop body runs in one thread: the next reading is built only after
\* process_reading, and with it the call of the callback, has returned
MayProduce(p) == p.pc = "idle"

\* process_reading builds the reading and calls self.callback(reading)
CallbackBegin(n) ==
    /\ pollers # <<>>
    /\ MayProduce(pollers[n])
    /\ pollers[n].seq < MaxReadings
    /\ LET r == [conn |-> n, seq |-> pollers[n].seq + 1, outcome |-> pollers[n].outcome]
       IN  /\ pollers' = [pollers EXCEPT ![n].pc = "call", ![n].seq = r.seq]
           /\ cbLog' = Append(cbLog, Event(r, "begin"))
    /\ UNCHANGED <<coroutines, supVars, regVars, rdVars, procVars, predVars, csvLoop, history>>

\* the call of the callback returns (or raises) into process_reading and the
\* csv loop, which has no try/except
CallbackReturn(n) ==
    /\ pollers # <<>>
    /\ pollers[n].pc = "call"
    /\ LET r == [conn |-> n, seq |-> pollers[n].seq, outcome |-> pollers[n].outcome]
           c == CallCallback(r)
       IN  /\ cbLog' = cbLog \o c.steps \o <<Event(r, "end")>>
           /\ coroutines' = coroutines \cup
                  {[r |-> r, body |-> c.coroutine[i]] : i \in DOMAIN c.coroutine}
           /\ pollers' = [pollers EXCEPT ![n].pc = IF c.raised THEN "crashed" ELSE "idle"]
    /\ UNCHANGED <<supVars, regVars, rdVars, procVars, predVars, csvLoop, history>>

InitIngest ==
    /\ SupIdle
    /\ RegIdle
    /\ RdIdle
    /\ ProcIdle
    /\ PredIdle
    /\ CsvIdle
    /\ history = <<>>
    /\ pollers \in [Pollers -> [pc : {"idle"}, seq : {0}, outcome : Outcomes]]
    /\ cbLog = <<>>
    /\ coroutines = {}

NextIngest ==
    \E n \in Pollers :
        \/ CallbackBegin(n)
        \/ CallbackReturn(n)

\* two running connectors delivering their readings to data_callback
SpecIngest == InitIngest /\ [][NextIngest]_vars

\* the readings whose callback call has returned
Returned == {cbLog[i].r : i \in {j \in DOMAIN cbLog : cbLog[j].ev = "end"}}

\* the stages of the callback that ran for reading r, in order
StepsOf(r) ==
    LET Sel(x) == x.r = r /\ x.ev \notin {"begin", "end"}
        q == SelectSeq(cbLog, Sel)
    IN  [i \in DOMAIN q |-> q[i].ev]

\* C17: for every reading handed to the registered callback, the stages run in
\* the order data processor, scorer, persistence, and the reading ends either
\* persisted or dropped with a logged error.
C17_PipelineRuns ==
    \A r \in Returned :
        StepsOf(r) \in {<<"processed", "scored", "saved">>,
                        <<"processed", "scored", "dropped">>}

\* C18: inside the callback a failure of the persistence sink is caught (the
\* reading is dropped with a logged error) and a failure of the data processor
\* or of the scorer is contained too: the reading is still forwarded to the
\* sink, unscored; in every case the polling loop goes on.
C18_FailuresContained ==
    /\ \A n \in DOMAIN pollers : pollers[n].pc # "crashed"
    /\ \A r \in Returned :
           /\ r.outcome = "db_fails" =>
                  StepsOf(r) = <<"processed", "scored", "dropped">>
           /\ r.outcome \in {"proc_fails", "detect_fails"} =>
                  \E i \in DOMAIN StepsOf(r) : StepsOf(r)[i] = "saved"

\* C19: the readings of one connector reach the callback in the order the
\* connector produced them, one at a time: when the call for a reading begins,
\* the call for every earlier reading of the same connector has returned.
C19_InOrderPerConnector ==
    \A j \in DOMAIN cbLog :
        cbLog[j].ev = "begin" =>
            \A k \in 1..(cbLog[j].r.seq - 1) :
                \E b, e \in 1..(j - 1) :
                    /\ b < e
                    /\ cbLog[b].ev = "begin" /\ cbLog[e].ev = "end"
                    /\ cbLog[b].r = cbLog[e].r
                    /\ cbLog[b].r.conn = cbLog[j].r.conn
                    /\ cbLog[b].r.seq = k

\* C19 witness: a connector delivered its second reading while the call for a
\* reading of the other connector was in progress
C19_Witness ==
    \E j \in DOMAIN cbLog :
        /\ cbLog[j].ev = "begin" /\ cbLog[j].r.seq = 2
        /\ j > 1
        /\ cbLog[j - 1].ev = "begin" /\ cbLog[j - 1].r.conn # cbLog[j].r.conn

(***************************************************************************)
(* The liveness flags at statement level.  disconnect() clears the flags   *)
(* with two assignments (`self.connected = False`, `self.loop = False`)    *)
(* and the loop test `while self.loop and self.connected` loads them with  *)
(* two reads; the interpreter may switch threads between any two of them.  *)
(* thread "test2": self.loop was read as True, self.connected is not yet   *)
(* read.  pending.op "clearing": connected is cleared, loop is not yet.    *)
(***************************************************************************)
\* the connectors a successful connect() and read_data(loop=True) leave behind
Running ==
    {ReadDataLoop(Connect(NewConnector(E, T), TRUE)) :
        E \in EquipmentIds, T \in {"csv", "api", "modbus", "opcua"}}

\* the loop test reads self.loop; `and` stops there when it is False
ReadLoopFlag(n) ==
    /\ connectors[n].thread = "top"
    /\ connectors' = [connectors EXCEPT ![n].thread =
                        IF connectors[n].loop THEN "test2" ELSE "done"]
    /\ invoked' = 0
    /\ UNCHANGED <<active_connectors, installed, pending, response, lastCall, stopped, pureVars>>

\* the loop test reads self.connected
ReadConnectedFlag(n) ==
    /\ connectors[n].thread = "test2"
    /\ connectors' = [connectors EXCEPT ![n].thread =
                        IF connectors[n].connected THEN "read" ELSE "done"]
    /\ invoked' = 0
    /\ UNCHANGED <<active_connectors, installed, pending, response, lastCall, stopped, pureVars>>

\* disconnect(): the client is closed (modbus, opcua) and `self.connected = False`
WriteConnectedFlag(n) ==
    /\ pending = Idle
    /\ connectors[n] # NoConnector
    /\ connectors' = [connectors EXCEPT ![n] =
                        [ClientClose(connectors[n]) EXCEPT !.connected = FALSE]]
    /\ pending' = [op |-> "clearing", eq |-> "none", ctype |-> "none", conn |-> n]
    /\ lastCall' = [op |-> "disconnect", conn |-> n, arg |-> "none",
                    result |-> "joining", before |-> connectors[n]]
    /\ invoked' = 0
    /\ UNCHANGED <<active_connectors, installed, response, stopped, pureVars>>

\* disconnect(): `self.loop = False`, then the join if the thread is alive
WriteLoopFlag ==
    /\ pending.op = "clearing"
    /\ connectors' = [connectors EXCEPT ![pending.conn].loop = FALSE]
    /\ IF IsAlive(connectors[pending.conn])
       THEN /\ pending' = [pending EXCEPT !.op = "disconnect"]
            /\ UNCHANGED lastCall
       ELSE /\ pending' = Idle
            /\ lastCall' = [lastCall EXCEPT !.result = "ok"]
    /\ invoked' = 0
    /\ UNCHANGED <<active_connectors, installed, response, stopped, pureVars>>

InitFlags ==
    /\ connectors \in [ConnIds -> Running]
    /\ active_connectors = [E \in EquipmentIds |-> 0]
    /\ installed = OptionalTypes
    /\ pending = Idle
    /\ response = NoResponse
    /\ lastCall = NoCall
    /\ stopped = {}
    /\ invoked = 0
    /\ RegIdle
    /\ RdIdle
    /\ ProcIdle
    /\ PredIdle
    /\ IngIdle
    /\ CsvIdle
    /\ history = <<>>

NextFlags ==
    \/ \E n \in ConnIds :
           \/ ReadLoopFlag(n)
           \/ ReadConnectedFlag(n)
           \/ \E readOk \in BOOLEAN : LoopBody(n, readOk)
           \/ LoopWake(n)
           \/ WriteConnectedFlag(n)
    \/ WriteLoopFlag
    \/ ConnJoinReturn

\* running connectors and calls of disconnect(), statement by statement
SpecFlags == InitFlags /\ [][NextFlags]_vars

\* C20: the accesses to a connector's liveness flags are mutually exclusive:
\* the flag update of disconnect() (both assignments) and the flag test of a
\* poll iteration (both reads) of the same connector never overlap.
C20_FlagAccessExclusive ==
    \A n \in ConnIds :
        ~(pending.op = "clearing" /\ pending.conn = n /\ connectors[n].thread = "test2")

(***************************************************************************)
(* CSVFileConnector._read_loop: the rows of the file are read once, then   *)
(* replayed.  A row is a dict from column names to cells; a cell is the    *)
(* text of the field, or None when the row is shorter than the header.     *)
(***************************************************************************)
\* rows in the file, and readings followed in one behaviour
MaxFileRows == 3
MaxReplayed == 5

CsvColumns == {"temperature"}
Cells == {Val("str", 0, 0, "70"), Val("str", 0, 0, "high"), Val("none", 0, 0, "")}

\* float(value): the number for numeric text, ValueError for other text,
\* TypeError for None
FloatOf(cell) ==
    IF cell.t = "none" THEN [error |-> "TypeError", value |-> cell]
    ELSE IF cell.s = "70" THEN [error |-> "none", value |-> Val("num", 0, 70, "")]
    ELSE [error |-> "ValueError", value |-> cell]

\* the conversion loop: ValueError keeps the text, any other error escapes
ProcessRow(row) ==
    [raised |-> \E key \in DOMAIN row : FloatOf(row[key]).error = "TypeError",
     processed_row |-> [key \in DOMAIN row |-> FloatOf(row[key]).value]]

\* an index that skips a row
NextIndexSkip(row_index, num_rows) == (row_index + 2) % num_rows

\* row_index = (row_index + 1) % num_rows
NextIndex(row_index, num_rows) == (row_index + 1) % num_rows

\* one iteration of the while loop of _read_loop, while loop and connected hold
CsvIterate ==
    /\ csvLoop # <<>>
    /\ csvLoop[1].running
    /\ Len(emitted) < MaxReplayed
    /\ LET rows == csvLoop[1].rows
           row_index == csvLoop[1].row_index
           num_rows == Len(rows)
       IN  IF num_rows = 0 \/ ProcessRow(rows[row_index + 1]).raised
           THEN \* IndexError or TypeError: the thread ends
                /\ csvLoop' = <<[csvLoop[1] EXCEPT !.running = FALSE]>>
                /\ UNCHANGED emitted
           ELSE /\ emitted' = Append(emitted,
                       process_reading("EQ1", [second |-> Len(emitted), microsecond |-> 0],
                                       ProcessRow(rows[row_index + 1]).processed_row))
                /\ csvLoop' = <<[csvLoop[1] EXCEPT
                                   !.row_index = NextIndex(row_index, num_rows)]>>
    /\ UNCHANGED <<byteorder, registers, device, supVars, rdVars, procVars, predVars,
                   ingVars, history>>

InitCsv ==
    /\ SupIdle
    /\ RegIdle
    /\ RdIdle
    /\ ProcIdle
    /\ PredIdle
    /\ IngIdle
    /\ history = <<>>
    /\ \E n \in 0..MaxFileRows :
           csvLoop \in {<<[rows |-> r, row_index |-> 0, running |-> TRUE]>> :
                           r \in [1..n -> [CsvColumns -> Cells]]}

NextCsv == CsvIterate

\* the replay loop of a csv connector over every small file
SpecCsv == InitCsv /\ [][NextCsv]_vars

\* C24: for a file with N >= 1 rows, the k-th reading emitted by the loop
\* (k = 0, 1, 2, ...) carries row k mod N: the rows are replayed in file order
\* and wrap to the first row after the last.
C24_CyclicReplay ==
    (csvLoop # <<>> /\ Len(csvLoop[1].rows) >= 1) =>
        \A k \in 0..(Len(emitted) - 1) :
            LET row == csvLoop[1].rows[(k % Len(csvLoop[1].rows)) + 1]
            IN  \A key \in CsvColumns :
                    /\ key \in DOMAIN emitted[k + 1]
                    /\ emitted[k + 1][key] = FloatOf(row[key]).value

\* C24 witness: a file of two different rows has been replayed past its end
C24_Witness ==
    /\ csvLoop # <<>>
    /\ Len(csvLoop[1].rows) = 2
    /\ csvLoop[1].rows[1] # csvLoop[1].rows[2]
    /\ Len(emitted) >= 4

(***************************************************************************)
(* The shared DataProcessor of main.py as the callback uses it: every call *)
(* is process(reading) with one reading, a dict with equipment_id,         *)
(* timestamp and the sensor fields.  All readings list their fields in the *)
(* order of FieldOrder; process appends the time features after them.      *)
(* A column of the returned frame is named by a triple: <<c, "", "">> for  *)
(* column c, <<c1, c2, "product">> for f"{c1}_{c2}_product".               *)
(***************************************************************************)
\* calls of process in one behaviour
MaxCalls == 6

TimeFeatures == <<"hour", "day", "month", "year", "day_of_week">>
FieldOrder == <<"temperature", "vibration", "pressure", "current">> \o TimeFeatures
\* the sensor fields each equipment reports
FieldsOf(E) == IF E = "EQ1" THEN {"temperature", "vibration"} ELSE {"pressure", "current"}
\* the readings: every field is 2, but the first field of the equipment varies
StreamReadings ==
    {[equipment_id |-> E,
      values |-> [f \in FieldsOf(E) |-> IF f \in {"temperature", "pressure"} THEN v ELSE 2]] :
        E \in EquipmentIds, v \in {2, 3}}

\* the time features of the timestamp 2024-01-02T01:00:00 (a Tuesday)
TimeValue(c) ==
    CASE c = "hour" -> 1 [] c = "day" -> 2 [] c = "month" -> 1
      [] c = "year" -> 2024 [] OTHER -> 1

SeqRange(q) == {q[i] : i \in DOMAIN q}

\* the numeric columns of the one-row frame built from reading r
FrameColumns(r) == DOMAIN r.values \cup SeqRange(TimeFeatures)

\* _handle_missing_values on a one-row frame without missing values:
\* numerical_columns is set by the first call and kept
IdentifyNumerical(nc, r) ==
    IF nc.none THEN [none |-> FALSE, cols |-> FrameColumns(r)] ELSE nc

\* _engineer_features on a one-row frame: no rolling statistics and no rate
\* (len(df) > 1 fails); product and ratio for the pairs of the first five
\* numerical columns that are in the frame
EngineerRow(nc, r) ==
    LET InFrame(c) == c \in nc.cols /\ c \in FrameColumns(r)
        numerical_cols == SelectSeq(FieldOrder, InFrame)
        m == IF Len(numerical_cols) < 5 THEN Len(numerical_cols) ELSE 5
        value(c) == IF c \in DOMAIN r.values THEN r.values[c] ELSE TimeValue(c)
        pairs == IF Cardinality(nc.cols) >= 2 /\ Len(numerical_cols) >= 2
                 THEN {p \in (1..m) \X (1..m) : p[1] < p[2]} ELSE {}
        keys == {<<c, "", "">> : c \in FrameColumns(r)}
                  \cup {<<numerical_cols[p[1]], numerical_cols[p[2]], x>> :
                           p \in pairs, x \in {"product", "ratio"}}
    IN  [k \in keys |->
            CASE k[3] = "product" -> Frac(value(k[1]) * value(k[2]), 1)
              [] k[3] = "ratio" -> Frac(value(k[1]), value(k[2]))
              [] OTHER -> Frac(value(k[1]), 1)]

\* data_processor.process(reading), called by the callback of any connector
ProcessReading(r) ==
    /\ Len(history) < MaxCalls
    /\ LET nc == IdentifyNumerical(numerical_columns, r)
       IN  /\ numerical_columns' = nc
           /\ features' = <<[frame |-> r, out |-> EngineerRow(nc, r)]>>
    /\ history' = Append(history, r)
    /\ UNCHANGED <<frames, supVars, regVars, rdVars, predVars, ingVars, csvLoop>>

\* the processor as main.py constructs it

InitShared ==
    /\ SupIdle
    /\ RegIdle
    /\ RdIdle
    /\ PredIdle
    /\ IngIdle
    /\ CsvIdle
    /\ numerical_columns = [none |-> TRUE, cols |-> {}]
    /\ frames = <<>>
    /\ features = <<>>
    /\ history = <<>>

NextShared == \E r \in StreamReadings : ProcessReading(r)

\* the readings of two equipments arriving at the shared processor in any order
SpecShared == InitShared /\ [][NextShared]_vars

\* the readings processed so far
Processed == history

RECURSIVE SumField(_, _, _)
\* sum of field f over the last k readings of q
SumField(q, f, k) ==
    IF k = 0 THEN 0 ELSE q[Len(q)].values[f] + SumField(SubSeq(q, 1, Len(q) - 1), f, k - 1)

\* C25: the processor keeps a window of 5 per numeric field across calls:
\* after five or more consecutive process(reading) calls with readings of one
\* stream, the output of the latest call holds the rolling mean, std, min and
\* max of each field, the mean being that of the last 5 readings.
C25_WindowAcrossCalls ==
    (/\ Len(Processed) >= 5
     /\ \A i \in (Len(Processed) - 4)..Len(Processed) :
            Processed[i].equipment_id = Processed[Len(Processed)].equipment_id) =>
        \A f \in DOMAIN features[1].frame.values :
            /\ \A x \in {"rolling_mean", "rolling_std", "rolling_min", "rolling_max"} :
                   <<f, x, "">> \in DOMAIN features[1].out
            /\ features[1].out[<<f, "rolling_mean", "">>].num * 5 =
                   features[1].out[<<f, "rolling_mean", "">>].den * SumField(Processed, f, 5)

RECURSIVE ColumnsAfter(_, _)
\* numerical_columns of a processor that started at nc and processed q
ColumnsAfter(nc, q) ==
    IF q = <<>> THEN nc ELSE ColumnsAfter(IdentifyNumerical(nc, Head(q)), Tail(q))

\* the readings of equipment E among those processed so far
StreamOf(E) == LET Own(r) == r.equipment_id = E IN SelectSeq(Processed, Own)

\* C26: the result of process(reading) for a reading of equipment E is the
\* result a processor gives that has processed the readings of E only: it does
\* not depend on the readings of other equipment ids processed before it.
C26_PerStreamState ==
    Processed # <<>> =>
        LET r == features[1].frame
            own == StreamOf(r.equipment_id)
        IN  features[1].out =
                EngineerRow(ColumnsAfter([none |-> TRUE, cols |-> {}], own), r)

====
